---------------------------- MODULE Spec2Model ----------------------------
(***************************************************************************)
(* A model of the Monad wallet integration layer (src/unnamed/part_000):   *)
(* provider resolution (getProvider), the chain switch/add handshake       *)
(* (ensureMonadNetwork), the connection session (connectWallet,            *)
(* reconnectWallet, disconnectWallet) and the transfer dispatcher          *)
(* (sendPayment, sendBulkPayment).                                         *)
(*                                                                         *)
(* Every async function is cut at its awaits of a provider request or of   *)
(* the inter-transfer timer: one action runs the synchronous code from one *)
(* such await to the next, and its input is the way the awaited request    *)
(* settled.  `await ensureMonadNetwork()` of a call that returned without  *)
(* issuing a request is not a cut (nothing external is awaited).           *)
(*                                                                         *)
(* Strings that the code matches against regular expressions (recipient    *)
(* addresses) are tuples of one-character strings.  Amounts are integers   *)
(* in thousandths of a MON (0.1 MON = 100).                                *)
(***************************************************************************)
EXTENDS Integers, Sequences, FiniteSets, TLC

VARIABLES
    win,               \* the injected wallet objects: window.ethereum, window.solana
    storage,           \* localStorage["monad_connected_account"]
    connectedAccount,  \* the module-level connection state
    walletChain,       \* the chain the wallet is on (wallet-side state)
    established,       \* history: hydrated, or a connect/reconnect succeeded, since the last disconnect
    connect,           \* the connectWallet call
    reconnect,         \* the reconnectWallet call
    send,              \* the sendPayment call
    bulk,              \* the sendBulkPayment call
    resolved,          \* the outcome of the last getProvider() of the resolver specification
    details            \* the getTransactionDetails call

vars == <<win, storage, connectedAccount, walletChain, established,
          connect, reconnect, send, bulk, resolved, details>>

-----------------------------------------------------------------------------
(* Bounds of the model *)

\* the longest recipient list of a bulk call
MaxRecipients == 3

\* the longest window.ethereum.providers array of the resolver specification
MaxProviders == 3

-----------------------------------------------------------------------------
(* Values *)

NULL == "null"

\* MONAD_CONFIG.chainIdHex
chainIdHex == "0x279F"

\* a chain other than the target that the user can put the wallet on
OtherChain == "0x1"

\* the provider error code read as "chain not added"
ChainNotAdded == 4902

\* accounts the wallet can expose
Accounts == {"0xA1", "0xA2"}

\* the hash the wallet answers the i-th submission of a call with: every
\* transaction has a hash of its own
TxHash(i) == "0xh" \o ToString(i)

Repeat(c, n) == [i \in 1..n |-> c]

HexChars == {"0", "1", "2", "3", "4", "5", "6", "7", "8", "9",
             "a", "b", "c", "d", "e", "f", "A", "B", "C", "D", "E", "F"}

\* the number of hexadecimal characters of an address
AddressHexLen == 40

TEST_ADDRESS ==
    <<"0", "x", "7", "0", "c", "5", "7", "3", "9", "7", "9", "F", "6", "1",
      "7", "1", "0", "D", "3", "2", "8", "4", "1", "2", "0", "2", "6", "1",
      "B", "5", "6", "2", "e", "5", "2", "4", "a", "d", "3", "7", "6", "3">>

\* recipient addresses of the requests
AddrGood == <<"0", "x">> \o Repeat("a", 38) \o <<"B", "9">>
AddrLeadingZeros == <<"0", "x">> \o Repeat("0", 39) \o <<"7">>
AddrShort == <<"0", "x", "1", "2">>
AddrNoPrefix == Repeat("a", 42)

\* /^0x[a-fA-F0-9]{40}$/.test(address), false for the empty string
isValidAddress(address) ==
    /\ Len(address) = 2 + AddressHexLen
    /\ address[1] = "0"
    /\ address[2] = "x"
    /\ \A i \in 3..Len(address) : address[i] \in HexChars

\* /^0x0+[0-9a-f]$/i.test(address)
isPlaceholder(address) ==
    /\ Len(address) >= 4
    /\ address[1] = "0"
    /\ address[2] \in {"x", "X"}
    /\ \A i \in 3..(Len(address) - 1) : address[i] = "0"
    /\ address[Len(address)] \in HexChars

\* PLATFORM_CONFIG.feePercentage, in tenths of a percent (0.5 %)
feePercentage == 5

\* the amount every transfer sends, in thousandths of a MON (0.1 MON)
hardcodedAmount == 100

\* (amount * feePercentage) / 100; exact on the amounts of the model
calculatePlatformFee(amount) == (amount * feePercentage) \div 1000

calculateNetAmount(amount) == amount - calculatePlatformFee(amount)

-----------------------------------------------------------------------------
(* Provider requests: how a request settles *)

Resolved(v) == [ok |-> TRUE, value |-> v]
Rejected(e) == [ok |-> FALSE, error |-> e]

\* new Error(message): an Error instance without a code
Error(message) == [isError |-> TRUE, message |-> message]

\* the structured errors a provider request can fail with; the last one is a
\* plain object, not an Error instance
ErrUnrecognizedChain ==
    [isError |-> TRUE, code |-> ChainNotAdded, message |-> "Unrecognized chain ID"]
ErrUserRejected ==
    [isError |-> TRUE, code |-> 4001, message |-> "User rejected the request"]
ErrInternal ==
    [isError |-> FALSE, code |-> -32603, message |-> "Internal JSON-RPC error"]

\* error instanceof Error ? error.message : "Unknown error"
errorMessage(e) == IF e.isError THEN e.message ELSE "Unknown error"

\* (switchError as { code?: number }).code === 4902
IsChainNotAdded(e) == "code" \in DOMAIN e /\ e.code = ChainNotAdded

SwitchOutcomes == {Resolved(NULL), Rejected(ErrUnrecognizedChain), Rejected(ErrUserRejected)}
AddOutcomes == {Resolved(NULL), Rejected(ErrUserRejected)}
SubmitOutcomes(i) == {Resolved(TxHash(i)), Rejected(ErrUserRejected), Rejected(ErrInternal)}
AccountsOutcomes ==
    {Resolved(<<>>), Rejected(ErrUserRejected), Resolved(<<"0xA2", "0xA1">>)}
    \cup {Resolved(<<a>>) : a \in Accounts}
BalanceOutcomes == {Resolved("0x0"), Rejected(ErrInternal)}

-----------------------------------------------------------------------------
(* ProviderResolver *)

\* an entry of window.ethereum.providers: a falsy entry or a provider object
SubProviders == {[present |-> FALSE, isMetaMask |-> FALSE, hasRequest |-> FALSE]}
                \cup [present : {TRUE}, isMetaMask : BOOLEAN, hasRequest : BOOLEAN]

SeqsUpTo(S, n) == UNION {[1..k -> S] : k \in 0..n}

NoEthereum(solana) ==
    [hasEthereum |-> FALSE, providers |-> <<>>, isMetaMask |-> FALSE,
     hasRequest |-> FALSE, hasSolana |-> solana]

\* every shape of the injected objects getProvider tells apart
Windows ==
    {NoEthereum(s) : s \in BOOLEAN}
    \cup [hasEthereum : {TRUE}, providers : SeqsUpTo(SubProviders, MaxProviders),
          isMetaMask : BOOLEAN, hasRequest : BOOLEAN, hasSolana : BOOLEAN]

MsgPhantomOnly ==
    "Detected Phantom (Solana) wallet but no EVM provider. Please install MetaMask or disable Phantom as the Default App Wallet and refresh."
MsgNoWallet ==
    "No EVM-compatible wallet found. Please install MetaMask or another Web3 wallet that supports Ethereum RPC."
MsgPhantomDefault ==
    "Multiple wallets detected and Phantom may be the Default App Wallet. Please set MetaMask as the handler or disable Phantom's Default App Wallet in its settings, then refresh."
MsgNoUsable == "No usable EVM provider found. Install MetaMask and try again."

\* the handles getProvider can return
EthHandle == [kind |-> "ethereum", index |-> 0]
SubHandle(i) == [kind |-> "providers", index |-> i]

Returned(h) == [ok |-> TRUE, handle |-> h]
Thrown(e) == [ok |-> FALSE, error |-> e]

isWalletInstalled(w) == w.hasEthereum

\* a variant of findMetaMask that looks at the first entry only
findMetaMaskFirstOnly(providers) ==
    IF Len(providers) > 0 /\ providers[1].present /\ providers[1].isMetaMask THEN 1 ELSE 0

\* eth.providers.find((p) => p && p.isMetaMask): the index found, 0 for none
findMetaMask(providers) ==
    LET flagged == {i \in 1..Len(providers) : providers[i].present /\ providers[i].isMetaMask}
    IN  IF flagged = {} THEN 0 ELSE CHOOSE i \in flagged : \A j \in flagged : i <= j

\* a variant of getProvider whose final fallback returns window.ethereum
\* whether or not Phantom is present
getProviderIgnoresPhantom(w) ==
    IF ~w.hasEthereum
    THEN IF w.hasSolana THEN Thrown(Error(MsgPhantomOnly)) ELSE Thrown(Error(MsgNoWallet))
    ELSE LET preferred == findMetaMask(w.providers)
         IN  IF Len(w.providers) > 0 /\ preferred # 0
             THEN Returned(SubHandle(preferred))
             ELSE IF Len(w.providers) > 0 /\ w.providers[1].present /\ w.providers[1].hasRequest
             THEN Returned(SubHandle(1))
             ELSE IF w.isMetaMask \/ w.hasRequest
             THEN Returned(EthHandle)
             ELSE Thrown(Error(MsgNoUsable))

getProvider(w) ==
    IF ~w.hasEthereum
    THEN IF w.hasSolana THEN Thrown(Error(MsgPhantomOnly)) ELSE Thrown(Error(MsgNoWallet))
    ELSE LET preferred == findMetaMask(w.providers)
         IN  IF Len(w.providers) > 0 /\ preferred # 0
             THEN Returned(SubHandle(preferred))
             ELSE IF Len(w.providers) > 0 /\ w.providers[1].present /\ w.providers[1].hasRequest
             THEN Returned(SubHandle(1))
             ELSE IF w.isMetaMask
             THEN Returned(EthHandle)
             ELSE IF w.hasRequest
             THEN IF w.hasSolana THEN Thrown(Error(MsgPhantomDefault)) ELSE Returned(EthHandle)
             ELSE Thrown(Error(MsgNoUsable))

-----------------------------------------------------------------------------
(* NetworkEnsurer *)

Nothing == [nothing |-> TRUE]

\* A run of ensureMonadNetwork: phase is where it stands ("switch" and "add":
\* that request is pending; "returned"; "threw"), thrown is what it threw.
\* switches and adds count the requests it issued; switchResult and addResult
\* are how they settled.
ensureMonadNetwork(w) ==
    LET e0 == [phase |-> "returned", switches |-> 0, adds |-> 0,
               switchResult |-> Nothing, addResult |-> Nothing, thrown |-> Nothing]
    IN  IF ~isWalletInstalled(w)
        THEN e0
        ELSE LET p == getProvider(w)
             IN  IF ~p.ok
                 THEN [e0 EXCEPT !.phase = "threw", !.thrown = p.error]
                 ELSE [e0 EXCEPT !.phase = "switch", !.switches = 1]

\* a variant of ensureSwitchSettled that adds the chain after any failed switch
ensureSwitchSettledAlwaysAdds(e, outcome) ==
    LET e1 == [e EXCEPT !.switchResult = outcome]
    IN  IF outcome.ok
        THEN [e1 EXCEPT !.phase = "returned"]
        ELSE [e1 EXCEPT !.phase = "add", !.adds = @ + 1]

\* the wallet_switchEthereumChain request has settled
ensureSwitchSettled(e, outcome) ==
    LET e1 == [e EXCEPT !.switchResult = outcome]
    IN  IF outcome.ok
        THEN [e1 EXCEPT !.phase = "returned"]
        ELSE IF IsChainNotAdded(outcome.error)
        THEN [e1 EXCEPT !.phase = "add", !.adds = @ + 1]
        ELSE [e1 EXCEPT !.phase = "threw", !.thrown = outcome.error]

\* the wallet_addEthereumChain request has settled
ensureAddSettled(e, outcome) ==
    IF outcome.ok
    THEN [e EXCEPT !.phase = "returned", !.addResult = outcome]
    ELSE [e EXCEPT !.phase = "threw", !.addResult = outcome, !.thrown = outcome.error]

\* the wallet's chain after a switch or add-chain request settled: both leave
\* the wallet on the requested chain when they succeed
chainAfter(outcome) == IF outcome.ok THEN chainIdHex ELSE walletChain

-----------------------------------------------------------------------------
(* TransferDispatcher: sendBulkPayment *)

NoResult == [none |-> TRUE]
NoRequest == [method |-> "none"]

\* the requests of a bulk call: a valid one, two with an address the call
\* replaces, and two with an invalid amount
RequestChoices ==
    {[address |-> AddrGood, amount |-> 1000000],
     [address |-> AddrShort, amount |-> 200000],
     [address |-> AddrLeadingZeros, amount |-> 400000],
     [address |-> AddrGood, amount |-> 0],
     [address |-> AddrNoPrefix, amount |-> -200000]}

BulkInputs == SeqsUpTo(RequestChoices, MaxRecipients)

BulkIdle ==
    [pc |-> "idle", recipients |-> <<>>, includePlatformFee |-> FALSE,
     ensure |-> ensureMonadNetwork(NoEthereum(FALSE)), prevalidated |-> FALSE,
     validatedRecipients |-> <<>>, idx |-> 0, lastTxHash |-> "",
     totalPlatformFee |-> 0, totalNetAmount |-> 0, failedTransactions |-> 0,
     request |-> NoRequest, attempts |-> <<>>, result |-> NoResult]

\* the outer catch: { success: false, error }
bulkCatch(b, error) ==
    [b EXCEPT !.pc = "done", !.request = NoRequest,
              !.result = [success |-> FALSE, error |-> errorMessage(error)]]

\* a variant of validateRecipient that replaces invalid addresses only
validateRecipientInvalidOnly(recipient) ==
    IF ~isValidAddress(recipient.address)
    THEN [recipient EXCEPT !.address = TEST_ADDRESS]
    ELSE recipient

\* recipients.map(...): invalid and placeholder addresses become TEST_ADDRESS
validateRecipient(recipient) ==
    IF isPlaceholder(recipient.address) \/ ~isValidAddress(recipient.address)
    THEN [recipient EXCEPT !.address = TEST_ADDRESS]
    ELSE recipient

validateRecipients(recipients) ==
    [i \in 1..Len(recipients) |-> validateRecipient(recipients[i])]

\* a variant of prevalidate that rejects negative amounts only
prevalidateNegativeOnly(validated) ==
    LET bad == {i \in 1..Len(validated) :
                    ~isValidAddress(validated[i].address) \/ validated[i].amount < 0}
    IN  IF bad = {}
        THEN Nothing
        ELSE LET i == CHOOSE i \in bad : \A j \in bad : i <= j
             IN  IF ~isValidAddress(validated[i].address)
                 THEN Error("Invalid Monad address")
                 ELSE Error("Amount must be greater than 0")

\* the pre-validation loop: the error it throws, Nothing when it passes
prevalidate(validated) ==
    LET bad == {i \in 1..Len(validated) :
                    ~isValidAddress(validated[i].address) \/ validated[i].amount <= 0}
    IN  IF bad = {}
        THEN Nothing
        ELSE LET i == CHOOSE i \in bad : \A j \in bad : i <= j
             IN  IF ~isValidAddress(validated[i].address)
                 THEN Error("Invalid Monad address")
                 ELSE Error("Amount must be greater than 0")

RECURSIVE sumPlatformFee(_)
sumPlatformFee(recipients) ==
    IF recipients = <<>>
    THEN 0
    ELSE calculatePlatformFee(Head(recipients).amount) + sumPlatformFee(Tail(recipients))

\* one turn of the submission loop, to its await of eth_sendTransaction
bulkSubmit(b, i) ==
    [b EXCEPT !.pc = "submit", !.idx = i,
              !.totalNetAmount = @ + hardcodedAmount,
              !.request = [method |-> "eth_sendTransaction", from |-> connectedAccount,
                           to |-> b.validatedRecipients[i].address,
                           value |-> hardcodedAmount],
              !.attempts = Append(@, [index |-> i, status |-> "pending", hash |-> ""])]

\* from the return of ensureMonadNetwork to the first await of the loop
bulkAfterEnsure(b) ==
    IF Len(b.recipients) = 0
    THEN bulkCatch(b, Error("No recipients provided"))
    ELSE IF connectedAccount = NULL
    THEN bulkCatch(b, Error("No wallet connected"))
    ELSE LET validated == validateRecipients(b.recipients)
             thrown == prevalidate(validated)
             p == getProvider(win)
             b1 == [b EXCEPT !.prevalidated = TRUE, !.validatedRecipients = validated]
         IN  IF thrown # Nothing
             THEN bulkCatch(b, thrown)
             ELSE IF ~p.ok
             THEN bulkCatch(b1, p.error)
             ELSE bulkSubmit([b1 EXCEPT !.totalPlatformFee =
                                  IF b.includePlatformFee
                                  THEN sumPlatformFee(b.recipients) ELSE 0], 1)

\* a variant of bulkTxSent that keeps the first hash it stored
bulkTxSentKeepsFirst(b, txHash) ==
    [b EXCEPT !.lastTxHash = IF @ = "" THEN txHash ELSE @]

\* eth_sendTransaction resolved: lastTxHash = txHash
bulkTxSent(b, txHash) ==
    [b EXCEPT !.lastTxHash = txHash]

\* a variant of bulkTxFailed that leaves the loop at the first failure
bulkTxFailedBreaks(b, txError) ==
    [b EXCEPT !.failedTransactions = @ + 1, !.idx = Len(b.validatedRecipients)]

\* catch (txError): failedTransactions++
bulkTxFailed(b, txError) ==
    [b EXCEPT !.failedTransactions = @ + 1]

\* the submission settled; the loop goes on to its delay
bulkSubmitSettled(b, outcome) ==
    LET b1 == IF outcome.ok THEN bulkTxSent(b, outcome.value)
                            ELSE bulkTxFailed(b, outcome.error)
    IN  [b1 EXCEPT !.pc = "delay", !.request = NoRequest]

\* a variant of bulkReturn that reports success only for a batch without failures
bulkReturnAllOrNothing(b) ==
    [b EXCEPT !.pc = "done",
              !.result =
                  [success |-> b.failedTransactions = 0,
                   txHash |-> b.lastTxHash]
                  @@ (IF b.includePlatformFee
                      THEN [totalPlatformFee |-> b.totalPlatformFee,
                            totalNetAmount |-> b.totalNetAmount]
                      ELSE <<>>)
                  @@ (IF b.failedTransactions > 0
                      THEN [failedTransactions |-> b.failedTransactions]
                      ELSE <<>>)]

\* the outcome record returned after the loop; an undefined field is absent
bulkReturn(b) ==
    [b EXCEPT !.pc = "done",
              !.result =
                  [success |-> b.failedTransactions < Len(b.recipients),
                   txHash |-> b.lastTxHash]
                  @@ (IF b.includePlatformFee
                      THEN [totalPlatformFee |-> b.totalPlatformFee,
                            totalNetAmount |-> b.totalNetAmount]
                      ELSE <<>>)
                  @@ (IF b.failedTransactions > 0
                      THEN [failedTransactions |-> b.failedTransactions]
                      ELSE <<>>)]

\* the delay elapsed: the next turn of the loop, or the return
bulkAfterDelay(b) ==
    IF b.idx < Len(b.validatedRecipients) THEN bulkSubmit(b, b.idx + 1) ELSE bulkReturn(b)

\* a variant of bulkAfterEnsureStep that goes on when ensureMonadNetwork threw
bulkAfterEnsureStepIgnoresFailure(b, e) ==
    LET b1 == [b EXCEPT !.ensure = e]
    IN  IF e.phase \in {"threw", "returned"} THEN bulkAfterEnsure(b1)
        ELSE [b1 EXCEPT !.pc = "ensure"]

\* where a call stands after a step of its ensureMonadNetwork
bulkAfterEnsureStep(b, e) ==
    LET b1 == [b EXCEPT !.ensure = e]
    IN  IF e.phase = "threw" THEN bulkCatch(b1, e.thrown)
        ELSE IF e.phase = "returned" THEN bulkAfterEnsure(b1)
        ELSE [b1 EXCEPT !.pc = "ensure"]

sendBulkPayment(recipients, includePlatformFee) ==
    /\ bulk.pc = "idle"
    /\ bulk' = bulkAfterEnsureStep(
                   [BulkIdle EXCEPT !.recipients = recipients,
                                    !.includePlatformFee = includePlatformFee],
                   ensureMonadNetwork(win))
    /\ UNCHANGED <<win, storage, connectedAccount, walletChain, established,
                   connect, reconnect, send, resolved, details>>

sendBulkSwitchSettles(outcome) ==
    /\ bulk.pc = "ensure"
    /\ bulk.ensure.phase = "switch"
    /\ walletChain' = chainAfter(outcome)
    /\ bulk' = bulkAfterEnsureStep(bulk, ensureSwitchSettled(bulk.ensure, outcome))
    /\ UNCHANGED <<win, storage, connectedAccount, established,
                   connect, reconnect, send, resolved, details>>

sendBulkAddSettles(outcome) ==
    /\ bulk.pc = "ensure"
    /\ bulk.ensure.phase = "add"
    /\ walletChain' = chainAfter(outcome)
    /\ bulk' = bulkAfterEnsureStep(bulk, ensureAddSettled(bulk.ensure, outcome))
    /\ UNCHANGED <<win, storage, connectedAccount, established,
                   connect, reconnect, send, resolved, details>>

\* attempts is the wallet's record of the submissions it was handed, in the
\* order it received them, each with the way it answered
attemptSettled(b, outcome) ==
    [b EXCEPT !.attempts[Len(bulk.attempts)] =
                  IF outcome.ok THEN [@ EXCEPT !.status = "ok", !.hash = outcome.value]
                                ELSE [@ EXCEPT !.status = "failed"]]

sendBulkSubmitSettles(outcome) ==
    /\ bulk.pc = "submit"
    /\ bulk' = attemptSettled(bulkSubmitSettled(bulk, outcome), outcome)
    /\ UNCHANGED <<win, storage, connectedAccount, walletChain, established,
                   connect, reconnect, send, resolved, details>>

sendBulkDelayElapses ==
    /\ bulk.pc = "delay"
    /\ bulk' = bulkAfterDelay(bulk)
    /\ UNCHANGED <<win, storage, connectedAccount, walletChain, established,
                   connect, reconnect, send, resolved, details>>

\* the caller has taken the outcome; the call slot is free again
sendBulkReturns ==
    /\ bulk.pc = "done"
    /\ bulk' = BulkIdle
    /\ UNCHANGED <<win, storage, connectedAccount, walletChain, established,
                   connect, reconnect, send, resolved, details>>

-----------------------------------------------------------------------------
(* TransferDispatcher: sendPayment *)

SendRecipients == {AddrGood, AddrShort, AddrLeadingZeros}
SendAmounts == {1000000, 0, -200000}

SendIdle ==
    [pc |-> "idle", recipient |-> <<>>, amount |-> 0, includePlatformFee |-> FALSE,
     ensure |-> ensureMonadNetwork(NoEthereum(FALSE)), validated |-> FALSE,
     request |-> NoRequest, attempts |-> 0, result |-> NoResult]

\* a variant of sendCatch that lets the error leave the call
sendCatchRethrows(s, error) ==
    [s EXCEPT !.pc = "done", !.request = NoRequest,
              !.result = [threw |-> TRUE, error |-> error]]

\* the catch: { success: false, error }
sendCatch(s, error) ==
    [s EXCEPT !.pc = "done", !.request = NoRequest,
              !.result = [success |-> FALSE, error |-> errorMessage(error)]]

\* from the return of ensureMonadNetwork to the await of eth_sendTransaction
sendAfterEnsure(s) ==
    LET validatedRecipient ==
            IF isPlaceholder(s.recipient) \/ ~isValidAddress(s.recipient)
            THEN TEST_ADDRESS ELSE s.recipient
        p == getProvider(win)
    IN  IF ~isValidAddress(validatedRecipient)
        THEN sendCatch(s, Error("Invalid Monad address"))
        ELSE IF s.amount <= 0
        THEN sendCatch(s, Error("Amount must be greater than 0"))
        ELSE IF connectedAccount = NULL
        THEN sendCatch(s, Error("No wallet connected"))
        ELSE IF ~p.ok
        THEN sendCatch([s EXCEPT !.validated = TRUE], p.error)
        ELSE [s EXCEPT !.pc = "submit", !.validated = TRUE, !.attempts = @ + 1,
                       !.request = [method |-> "eth_sendTransaction",
                                    from |-> connectedAccount,
                                    to |-> validatedRecipient,
                                    value |-> hardcodedAmount]]

\* the outcome record of a sent payment; an undefined field is absent
sendReturn(s, txHash) ==
    [s EXCEPT !.pc = "done", !.request = NoRequest,
              !.result =
                  [success |-> TRUE, txHash |-> txHash]
                  @@ (IF s.includePlatformFee
                      THEN [platformFee |-> calculatePlatformFee(s.amount),
                            netAmount |-> s.amount - calculatePlatformFee(s.amount)]
                      ELSE <<>>)]

sendSubmitSettled(s, outcome) ==
    IF outcome.ok THEN sendReturn(s, outcome.value) ELSE sendCatch(s, outcome.error)

sendAfterEnsureStep(s, e) ==
    LET s1 == [s EXCEPT !.ensure = e]
    IN  IF e.phase = "threw" THEN sendCatch(s1, e.thrown)
        ELSE IF e.phase = "returned" THEN sendAfterEnsure(s1)
        ELSE [s1 EXCEPT !.pc = "ensure"]

sendPayment(recipient, amount, includePlatformFee) ==
    /\ send.pc = "idle"
    /\ send' = sendAfterEnsureStep(
                   [SendIdle EXCEPT !.recipient = recipient, !.amount = amount,
                                    !.includePlatformFee = includePlatformFee],
                   ensureMonadNetwork(win))
    /\ UNCHANGED <<win, storage, connectedAccount, walletChain, established,
                   connect, reconnect, bulk, resolved, details>>

sendSwitchSettles(outcome) ==
    /\ send.pc = "ensure"
    /\ send.ensure.phase = "switch"
    /\ walletChain' = chainAfter(outcome)
    /\ send' = sendAfterEnsureStep(send, ensureSwitchSettled(send.ensure, outcome))
    /\ UNCHANGED <<win, storage, connectedAccount, established,
                   connect, reconnect, bulk, resolved, details>>

sendAddSettles(outcome) ==
    /\ send.pc = "ensure"
    /\ send.ensure.phase = "add"
    /\ walletChain' = chainAfter(outcome)
    /\ send' = sendAfterEnsureStep(send, ensureAddSettled(send.ensure, outcome))
    /\ UNCHANGED <<win, storage, connectedAccount, established,
                   connect, reconnect, bulk, resolved, details>>

sendSubmitSettles(outcome) ==
    /\ send.pc = "submit"
    /\ send' = sendSubmitSettled(send, outcome)
    /\ UNCHANGED <<win, storage, connectedAccount, walletChain, established,
                   connect, reconnect, bulk, resolved, details>>

sendReturns ==
    /\ send.pc = "done"
    /\ send' = SendIdle
    /\ UNCHANGED <<win, storage, connectedAccount, walletChain, established,
                   connect, reconnect, bulk, resolved, details>>

\* the user puts the wallet on another chain in the wallet's own UI
userSwitchesChain ==
    /\ walletChain = chainIdHex
    /\ walletChain' = OtherChain
    /\ UNCHANGED <<win, storage, connectedAccount, established,
                   connect, reconnect, send, bulk, resolved, details>>

-----------------------------------------------------------------------------
(* ConnectionSession *)

\* the connection state: the in-memory address and the persisted one
Session(account, stored) == [account |-> account, stored |-> stored]

\* A session call records in `before` the connection state it was called in;
\* a write by another operation while the call is in flight moves it, so that
\* before is the state the call would leave had it written nothing itself.
rebase(call, account, stored) ==
    IF call.pc = "idle" THEN call ELSE [call EXCEPT !.before = Session(account, stored)]

ConnectIdle ==
    [pc |-> "idle", account |-> NULL, before |-> Session(NULL, NULL), result |-> NoResult]

\* the catch of connectWallet: throw new Error(message)
connectCatch(c, error) ==
    [c EXCEPT !.pc = "done",
              !.result = [threw |-> TRUE,
                          error |-> IF error.isError THEN error.message
                                    ELSE "Failed to connect to wallet."]]

\* from the call to the await of eth_requestAccounts
connectBegin(c, w) ==
    IF ~isWalletInstalled(w)
    THEN connectCatch(c, Error("Please install MetaMask or another Web3 wallet to continue."))
    ELSE IF ~getProvider(w).ok
    THEN connectCatch(c, getProvider(w).error)
    ELSE [c EXCEPT !.pc = "accounts"]

\* eth_requestAccounts settled with accounts: the call goes on to the switch
connectAccountsOk(accounts) == accounts # <<>>

\* wallet_switchEthereumChain settled
connectSwitchSettled(c, outcome) ==
    IF outcome.ok
    THEN [c EXCEPT !.pc = "balance"]
    ELSE IF IsChainNotAdded(outcome.error)
    THEN [c EXCEPT !.pc = "add"]
    ELSE connectCatch(c, outcome.error)

\* wallet_addEthereumChain settled
connectAddSettled(c, outcome) ==
    IF outcome.ok THEN [c EXCEPT !.pc = "balance"] ELSE connectCatch(c, outcome.error)

\* a variant of connectBalanceSettled that returns the address the session
\* held when connectWallet was called
connectBalanceSettledReturnsPrevious(c, outcome) ==
    IF outcome.ok
    THEN [c EXCEPT !.pc = "done",
                   !.result = [threw |-> FALSE, address |-> c.before.account,
                               balanceHex |-> outcome.value]]
    ELSE connectCatch(c, outcome.error)

\* eth_getBalance settled
connectBalanceSettled(c, outcome) ==
    IF outcome.ok
    THEN [c EXCEPT !.pc = "done",
                   !.result = [threw |-> FALSE, address |-> c.account,
                               balanceHex |-> outcome.value]]
    ELSE connectCatch(c, outcome.error)

connectWallet ==
    /\ connect.pc = "idle"
    /\ connect' = connectBegin(
                      [ConnectIdle EXCEPT !.before = Session(connectedAccount, storage)],
                      win)
    /\ UNCHANGED <<win, storage, connectedAccount, walletChain, established,
                   reconnect, send, bulk, resolved, details>>

connectAccountsSettle(outcome) ==
    /\ connect.pc = "accounts"
    /\ IF outcome.ok /\ connectAccountsOk(outcome.value)
       THEN /\ connectedAccount' = outcome.value[1]
            /\ storage' = outcome.value[1]
            /\ connect' = [connect EXCEPT !.pc = "switch", !.account = outcome.value[1]]
            /\ reconnect' = rebase(reconnect, outcome.value[1], outcome.value[1])
       ELSE /\ connect' = connectCatch(connect,
                              IF outcome.ok THEN Error("No accounts found")
                                            ELSE outcome.error)
            /\ UNCHANGED <<connectedAccount, storage, reconnect>>
    /\ UNCHANGED <<win, walletChain, established, send, bulk, resolved, details>>

connectSwitchSettles(outcome) ==
    /\ connect.pc = "switch"
    /\ walletChain' = chainAfter(outcome)
    /\ connect' = connectSwitchSettled(connect, outcome)
    /\ UNCHANGED <<win, storage, connectedAccount, established,
                   reconnect, send, bulk, resolved, details>>

connectAddSettles(outcome) ==
    /\ connect.pc = "add"
    /\ walletChain' = chainAfter(outcome)
    /\ connect' = connectAddSettled(connect, outcome)
    /\ UNCHANGED <<win, storage, connectedAccount, established,
                   reconnect, send, bulk, resolved, details>>

connectBalanceSettles(outcome) ==
    /\ connect.pc = "balance"
    /\ connect' = connectBalanceSettled(connect, outcome)
    /\ established' = (established \/ outcome.ok)
    /\ UNCHANGED <<win, storage, connectedAccount, walletChain,
                   reconnect, send, bulk, resolved, details>>

connectReturns ==
    /\ connect.pc = "done"
    /\ connect' = ConnectIdle
    /\ UNCHANGED <<win, storage, connectedAccount, walletChain, established,
                   reconnect, send, bulk, resolved, details>>

ReconnectIdle ==
    [pc |-> "idle", account |-> NULL, before |-> Session(NULL, NULL), result |-> NoResult]

\* return null, from the guards and from the catch
reconnectNull(r) == [r EXCEPT !.pc = "done", !.result = [address |-> NULL]]

\* from the call to the await of eth_accounts
reconnectBegin(r, w) ==
    IF ~isWalletInstalled(w) THEN reconnectNull(r)
    ELSE IF ~getProvider(w).ok THEN reconnectNull(r)
    ELSE [r EXCEPT !.pc = "accounts"]

\* eth_getBalance settled
reconnectBalanceSettled(r, outcome) ==
    IF outcome.ok
    THEN [r EXCEPT !.pc = "done",
                   !.result = [address |-> r.account, balanceHex |-> outcome.value]]
    ELSE reconnectNull(r)

reconnectWallet ==
    /\ reconnect.pc = "idle"
    /\ reconnect' = reconnectBegin(
                        [ReconnectIdle EXCEPT !.before = Session(connectedAccount, storage)],
                        win)
    /\ UNCHANGED <<win, storage, connectedAccount, walletChain, established,
                   connect, send, bulk, resolved, details>>

\* a variant of reconnectAccountsSettle that sets the session without
\* persisting it
reconnectAccountsSettleNoPersist(outcome) ==
    /\ reconnect.pc = "accounts"
    /\ IF outcome.ok /\ outcome.value # <<>>
       THEN /\ connectedAccount' = outcome.value[1]
            /\ reconnect' = [reconnect EXCEPT !.pc = "balance", !.account = outcome.value[1]]
            /\ connect' = rebase(connect, outcome.value[1], storage)
       ELSE /\ reconnect' = reconnectNull(reconnect)
            /\ UNCHANGED <<connectedAccount, connect>>
    /\ UNCHANGED <<win, storage, walletChain, established, send, bulk, resolved, details>>

reconnectAccountsSettle(outcome) ==
    /\ reconnect.pc = "accounts"
    /\ IF outcome.ok /\ outcome.value # <<>>
       THEN /\ connectedAccount' = outcome.value[1]
            /\ storage' = outcome.value[1]
            /\ reconnect' = [reconnect EXCEPT !.pc = "balance", !.account = outcome.value[1]]
            /\ connect' = rebase(connect, outcome.value[1], outcome.value[1])
       ELSE /\ reconnect' = reconnectNull(reconnect)
            /\ UNCHANGED <<connectedAccount, storage, connect>>
    /\ UNCHANGED <<win, walletChain, established, send, bulk, resolved, details>>

reconnectBalanceSettles(outcome) ==
    /\ reconnect.pc = "balance"
    /\ reconnect' = reconnectBalanceSettled(reconnect, outcome)
    /\ established' = (established \/ outcome.ok)
    /\ UNCHANGED <<win, storage, connectedAccount, walletChain,
                   connect, send, bulk, resolved, details>>

reconnectReturns ==
    /\ reconnect.pc = "done"
    /\ reconnect' = ReconnectIdle
    /\ UNCHANGED <<win, storage, connectedAccount, walletChain, established,
                   connect, send, bulk, resolved, details>>

\* a variant of disconnectWallet that leaves localStorage as it is
disconnectWalletKeepsStorage ==
    /\ connectedAccount' = NULL
    /\ established' = FALSE
    /\ connect' = rebase(connect, NULL, storage)
    /\ reconnect' = rebase(reconnect, NULL, storage)
    /\ UNCHANGED <<win, storage, walletChain, send, bulk, resolved, details>>

disconnectWallet ==
    /\ connectedAccount' = NULL
    /\ storage' = NULL
    /\ established' = FALSE
    /\ connect' = rebase(connect, NULL, NULL)
    /\ reconnect' = rebase(reconnect, NULL, NULL)
    /\ UNCHANGED <<win, walletChain, send, bulk, resolved, details>>

-----------------------------------------------------------------------------
(* Transaction detail query: getTransactionDetails *)

\* Date.now() at the return
Clock == {"t1", "t2"}

\* the null a query resolves with when the node has no such object
NoObject == [isNull |-> TRUE]

\* how eth_getTransactionByHash settles: the transaction, null for an unknown
\* hash, or a failure
TxOutcomes ==
    {Resolved([gasPrice |-> "0x3b9aca00"]), Resolved(NoObject), Rejected(ErrInternal)}

\* how eth_getTransactionReceipt settles: a receipt of a successful or of a
\* reverted transaction, a receipt without a status field, null while the
\* transaction is pending, or a failure
ReceiptOutcomes ==
    {Resolved([status |-> "0x1", gasUsed |-> "0x5208"]),
     Resolved([status |-> "0x0", gasUsed |-> "0x5208"]),
     Resolved([gasUsed |-> "0x5208"]),
     Resolved(NoObject),
     Rejected(ErrInternal)}

\* tx and receipt are how the two requests settled, Nothing before that
DetailsIdle ==
    [pc |-> "idle", txHash |-> "", tx |-> Nothing, receipt |-> Nothing,
     result |-> NoResult]

\* object?.field || fallback
fieldOr(object, field, fallback) ==
    IF object # NoObject /\ field \in DOMAIN object THEN object[field] ELSE fallback

\* a variant of detailsCatch that reports the failed query as a failure
detailsCatchPessimistic(d, now) ==
    [d EXCEPT !.pc = "done",
              !.result = [hash |-> d.txHash, success |-> FALSE, timestamp |-> now,
                          gasUsed |-> "0x0", gasPrice |-> "0x0"]]

\* the catch: the optimistic summary
detailsCatch(d, now) ==
    [d EXCEPT !.pc = "done",
              !.result = [hash |-> d.txHash, success |-> TRUE, timestamp |-> now,
                          gasUsed |-> "0x0", gasPrice |-> "0x0"]]

\* the summary built from the transaction and its receipt
detailsReturn(d, tx, receipt, now) ==
    [d EXCEPT !.pc = "done",
              !.result = [hash |-> d.txHash,
                          success |-> fieldOr(receipt, "status", NULL) = "0x1",
                          timestamp |-> now,
                          gasUsed |-> fieldOr(receipt, "gasUsed", "0x0"),
                          gasPrice |-> fieldOr(tx, "gasPrice", "0x0")]]

\* from the call to the await of eth_getTransactionByHash
getTransactionDetails(txHash, now) ==
    /\ details.pc = "idle"
    /\ details' = LET d == [DetailsIdle EXCEPT !.txHash = txHash]
                  IN  IF getProvider(win).ok THEN [d EXCEPT !.pc = "tx"]
                                             ELSE detailsCatch(d, now)
    /\ UNCHANGED <<win, storage, connectedAccount, walletChain, established,
                   connect, reconnect, send, bulk, resolved>>

detailsTxSettles(outcome, now) ==
    /\ details.pc = "tx"
    /\ details' = LET d == [details EXCEPT !.tx = outcome]
                  IN  IF outcome.ok THEN [d EXCEPT !.pc = "receipt"]
                                    ELSE detailsCatch(d, now)
    /\ UNCHANGED <<win, storage, connectedAccount, walletChain, established,
                   connect, reconnect, send, bulk, resolved>>

detailsReceiptSettles(outcome, now) ==
    /\ details.pc = "receipt"
    /\ details' = LET d == [details EXCEPT !.receipt = outcome]
                  IN  IF outcome.ok
                      THEN detailsReturn(d, details.tx.value, outcome.value, now)
                      ELSE detailsCatch(d, now)
    /\ UNCHANGED <<win, storage, connectedAccount, walletChain, established,
                   connect, reconnect, send, bulk, resolved>>

detailsReturns ==
    /\ details.pc = "done"
    /\ details' = DetailsIdle
    /\ UNCHANGED <<win, storage, connectedAccount, walletChain, established,
                   connect, reconnect, send, bulk, resolved>>

-----------------------------------------------------------------------------
(* Specifications *)

\* the injected objects of the session and transfer specifications: MetaMask
\* alone, no wallet at all, Phantom alone, and an ethereum object getProvider
\* rejects
MetaMaskOnly ==
    [hasEthereum |-> TRUE, providers |-> <<>>, isMetaMask |-> TRUE,
     hasRequest |-> TRUE, hasSolana |-> FALSE]

Unusable ==
    [hasEthereum |-> TRUE, providers |-> <<>>, isMetaMask |-> FALSE,
     hasRequest |-> FALSE, hasSolana |-> FALSE]

SessionWindows == {MetaMaskOnly, NoEthereum(FALSE), NoEthereum(TRUE), Unusable}

NotResolved == [none |-> TRUE]

\* module load: connectedAccount is hydrated from localStorage
InitOf(windows, stored) ==
    /\ win \in windows
    /\ storage \in stored
    /\ connectedAccount = storage
    /\ established = (storage # NULL)
    /\ walletChain \in {chainIdHex, OtherChain}
    /\ connect = ConnectIdle
    /\ reconnect = ReconnectIdle
    /\ send = SendIdle
    /\ bulk = BulkIdle
    /\ resolved = NotResolved
    /\ details = DetailsIdle

(* The transfer dispatcher.  One sendPayment or sendBulkPayment call is in   *)
(* flight at a time; disconnectWallet and the user's change of chain fall at *)
(* any of its awaits.  The session is the hydrated one: connectWallet and    *)
(* reconnectWallet run in SpecSession.                                       *)
Init == InitOf(SessionWindows, {NULL, "0xA1"})

NextSend ==
    \/ /\ bulk.pc = "idle"
       /\ \E r \in SendRecipients, a \in SendAmounts, f \in BOOLEAN : sendPayment(r, a, f)
    \/ \E o \in SwitchOutcomes : sendSwitchSettles(o)
    \/ \E o \in AddOutcomes : sendAddSettles(o)
    \/ \E o \in SubmitOutcomes(send.attempts) : sendSubmitSettles(o)
    \/ sendReturns

NextBulk ==
    \/ /\ send.pc = "idle"
       /\ \E rs \in BulkInputs, f \in BOOLEAN : sendBulkPayment(rs, f)
    \/ \E o \in SwitchOutcomes : sendBulkSwitchSettles(o)
    \/ \E o \in AddOutcomes : sendBulkAddSettles(o)
    \/ \E o \in SubmitOutcomes(Len(bulk.attempts)) : sendBulkSubmitSettles(o)
    \/ sendBulkDelayElapses
    \/ sendBulkReturns

Next == NextSend \/ NextBulk \/ disconnectWallet \/ userSwitchesChain

Spec == Init /\ [][Next]_vars

(* The connection session: connectWallet, reconnectWallet and                *)
(* disconnectWallet, interleaved at every await.                             *)
InitSession == InitOf(SessionWindows, {NULL} \cup Accounts)

NextSession ==
    \/ connectWallet
    \/ \E o \in AccountsOutcomes : connectAccountsSettle(o)
    \/ \E o \in SwitchOutcomes : connectSwitchSettles(o)
    \/ \E o \in AddOutcomes : connectAddSettles(o)
    \/ \E o \in BalanceOutcomes : connectBalanceSettles(o)
    \/ connectReturns
    \/ reconnectWallet
    \/ \E o \in AccountsOutcomes : reconnectAccountsSettle(o)
    \/ \E o \in BalanceOutcomes : reconnectBalanceSettles(o)
    \/ reconnectReturns
    \/ disconnectWallet

SpecSession == InitSession /\ [][NextSession]_vars

(* disconnectWallet at every await of a connectWallet and of a               *)
(* sendBulkPayment that are in flight together.                              *)
DisconnectBatches ==
    SeqsUpTo({[address |-> AddrGood, amount |-> 1000000]}, MaxRecipients)

InitDisconnect == InitOf(SessionWindows, {NULL, "0xA1"})

NextDisconnect ==
    \/ connectWallet
    \/ \E o \in AccountsOutcomes : connectAccountsSettle(o)
    \/ \E o \in SwitchOutcomes : connectSwitchSettles(o)
    \/ \E o \in AddOutcomes : connectAddSettles(o)
    \/ \E o \in BalanceOutcomes : connectBalanceSettles(o)
    \/ connectReturns
    \/ \E rs \in DisconnectBatches : sendBulkPayment(rs, FALSE)
    \/ \E o \in SwitchOutcomes : sendBulkSwitchSettles(o)
    \/ \E o \in AddOutcomes : sendBulkAddSettles(o)
    \/ \E o \in SubmitOutcomes(Len(bulk.attempts)) : sendBulkSubmitSettles(o)
    \/ sendBulkDelayElapses
    \/ sendBulkReturns
    \/ disconnectWallet

SpecDisconnect == InitDisconnect /\ [][NextDisconnect]_vars

(* The transaction detail query, for every way its two requests settle.     *)
InitDetails == InitOf(SessionWindows, {NULL, "0xA1"})

NextDetails ==
    \/ \E i \in 1..MaxRecipients, now \in Clock : getTransactionDetails(TxHash(i), now)
    \/ \E o \in TxOutcomes, now \in Clock : detailsTxSettles(o, now)
    \/ \E o \in ReceiptOutcomes, now \in Clock : detailsReceiptSettles(o, now)
    \/ detailsReturns

SpecDetails == InitDetails /\ [][NextDetails]_vars

(* The provider resolver: getProvider applied to every shape of the injected *)
(* objects.                                                                  *)
InitResolve == InitOf(Windows, {NULL})

resolve ==
    /\ resolved = NotResolved
    /\ resolved' = getProvider(win)
    /\ UNCHANGED <<win, storage, connectedAccount, walletChain, established,
                   connect, reconnect, send, bulk, details>>

NextResolve == resolve

SpecResolve == InitResolve /\ [][NextResolve]_vars

-----------------------------------------------------------------------------
(* Properties of sendBulkPayment's submission loop (Spec) *)

\* the attempts of the bulk call that the wallet answered with the given status
attemptsWith(status) ==
    {k \in 1..Len(bulk.attempts) : bulk.attempts[k].status = status}

\* the bulk call passed its pre-validation and resolved its provider: it is in
\* its submission loop or has returned from it
inSubmissionLoop == bulk.prevalidated /\ getProvider(win).ok

\* C1, as claimed: once pre-validation has passed, a batch of n recipients gets
\* exactly n submission attempts, one per recipient in request order, each
\* issued only after the one before it settled, whatever failed.
C1_AttemptsAfterPrevalidation ==
    bulk.prevalidated =>
        /\ \A k \in 1..Len(bulk.attempts) : bulk.attempts[k].index = k
        /\ \A k \in 1..(Len(bulk.attempts) - 1) : bulk.attempts[k].status # "pending"
        /\ bulk.pc = "done" =>
               /\ Len(bulk.attempts) = Len(bulk.recipients)
               /\ attemptsWith("pending") = {}

\* C1, amended: once pre-validation has passed and the provider has been
\* resolved, a batch of n recipients gets exactly n submission attempts, one
\* per recipient in request order; attempt k+1 is issued only after attempt k
\* has settled, and a failed attempt never prevents the later ones.
C1_AttemptsInSubmissionLoop ==
    inSubmissionLoop =>
        /\ Len(bulk.attempts) >= 1
        /\ \A k \in 1..Len(bulk.attempts) : bulk.attempts[k].index = k
        /\ \A k \in 1..(Len(bulk.attempts) - 1) : bulk.attempts[k].status # "pending"
        /\ (bulk.attempts[Len(bulk.attempts)].status = "pending") <=> (bulk.pc = "submit")
        /\ bulk.pc = "done" =>
               /\ Len(bulk.attempts) = Len(bulk.recipients)
               /\ attemptsWith("pending") = {}

\* a batch of three whose first two submissions failed and whose third succeeded
C1_Witness ==
    /\ bulk.pc = "done"
    /\ Len(bulk.recipients) = 3
    /\ attemptsWith("failed") = {1, 2}
    /\ attemptsWith("ok") = {3}

\* C2: for a call that reached the submission loop, the returned
\* failedTransactions is the number of submissions that failed, absent exactly
\* when that number is zero, and success is true iff at least one submission
\* succeeded, i.e. iff the failures are fewer than the recipients.
C2_FailureCountAndSuccess ==
    (bulk.pc = "done" /\ Len(bulk.attempts) > 0) =>
        LET failures == Cardinality(attemptsWith("failed"))
        IN  /\ ("failedTransactions" \in DOMAIN bulk.result) <=> (failures > 0)
            /\ failures > 0 => bulk.result.failedTransactions = failures
            /\ bulk.result.success <=> (attemptsWith("ok") # {})
            /\ bulk.result.success <=> (failures < Len(bulk.recipients))

\* a batch of three with one failure, reported as a success with one failure
C2_Witness ==
    /\ bulk.pc = "done"
    /\ Len(bulk.recipients) = 3
    /\ Cardinality(attemptsWith("failed")) = 1
    /\ bulk.result.success
    /\ bulk.result.failedTransactions = 1

\* C3: the hash sendBulkPayment returns is the hash of the last submission, in
\* request order, that succeeded, whatever the pattern of failures.
C3_LastSuccessfulHash ==
    (bulk.pc = "done" /\ attemptsWith("ok") # {}) =>
        LET last == CHOOSE k \in attemptsWith("ok") : \A j \in attemptsWith("ok") : j <= k
        IN  bulk.result.txHash = bulk.attempts[last].hash

\* a batch of three where only the third submission failed: the hash returned
\* is the second's
C3_Witness ==
    /\ bulk.pc = "done"
    /\ Len(bulk.recipients) = 3
    /\ attemptsWith("failed") = {3}
    /\ bulk.result.txHash = TxHash(2)
    /\ bulk.attempts[1].hash # bulk.attempts[2].hash

-----------------------------------------------------------------------------
(* Eager failure on structural problems (Spec) *)

\* the step in which a call leaves ensureMonadNetwork and runs its checks
sendLeavesEnsure == send.pc \in {"idle", "ensure"} /\ send'.pc \notin {"idle", "ensure"}
bulkLeavesEnsure == bulk.pc \in {"idle", "ensure"} /\ bulk'.pc \notin {"idle", "ensure"}

\* a call with an amount <= 0, or with an empty request list, submits nothing
\* and returns a failure
C4_InvalidInputs ==
    /\ (send.pc # "idle" /\ send.amount <= 0) =>
           /\ send.attempts = 0
           /\ send.pc = "done" => ~send.result.success
    /\ (/\ bulk.pc # "idle"
        /\ \/ bulk.recipients = <<>>
           \/ \E i \in 1..Len(bulk.recipients) : bulk.recipients[i].amount <= 0) =>
           /\ bulk.attempts = <<>>
           /\ bulk.pc = "done" => ~bulk.result.success

\* a call that runs its checks without an active session returns a failure in
\* that step and has submitted nothing
C4_NoSession ==
    /\ (sendLeavesEnsure /\ connectedAccount = NULL) =>
           /\ send'.pc = "done"
           /\ ~send'.result.success
           /\ send'.attempts = 0
    /\ (bulkLeavesEnsure /\ connectedAccount = NULL) =>
           /\ bulk'.pc = "done"
           /\ ~bulk'.result.success
           /\ bulk'.attempts = <<>>

\* C4: sendPayment and sendBulkPayment fail eagerly on structural problems: with
\* an amount <= 0 (anywhere in the list of a bulk call), an empty request list
\* or no active session, the call returns a failure outcome and issues no
\* eth_sendTransaction for any recipient, those before the invalid one included.
C4_EagerFailure == []C4_InvalidInputs /\ [][C4_NoSession]_vars

\* a connected bulk call of three whose network ensure succeeded and whose last
\* amount alone is invalid: it failed without a submission
C4_Witness ==
    /\ bulk.pc = "done"
    /\ connectedAccount # NULL
    /\ bulk.ensure.phase = "returned"
    /\ bulk.ensure.switches = 1
    /\ Len(bulk.recipients) = 3
    /\ bulk.recipients[1].amount > 0
    /\ bulk.recipients[2].amount > 0
    /\ bulk.recipients[3].amount <= 0
    /\ ~bulk.result.success
    /\ bulk.attempts = <<>>

-----------------------------------------------------------------------------
(* The connection state across failed session calls (SpecSession) *)

\* C5: whenever connectWallet fails, the in-memory connected address and the
\* persisted address are what they were before the call.
C5_FailedConnectLeavesState ==
    (connect.pc = "done" /\ connect.result.threw) =>
        Session(connectedAccount, storage) = connect.before

\* C6: whenever reconnectWallet returns null, the in-memory connected address
\* and the persisted address are what they were before the call.
C6_NullReconnectLeavesState ==
    (reconnect.pc = "done" /\ reconnect.result.address = NULL) =>
        Session(connectedAccount, storage) = reconnect.before

\* C7: with no session call in flight, the connected address is non-empty iff
\* a connect or reconnect call has succeeded since the last disconnect, or the
\* address was hydrated from storage at start and has not been cleared since.
C7_AddressIffEstablished ==
    (connect.pc \in {"idle", "done"} /\ reconnect.pc \in {"idle", "done"}) =>
        ((connectedAccount # NULL) <=> established)

-----------------------------------------------------------------------------
(* NetworkEnsurer (Spec) *)

\* the handshake of one run of ensureMonadNetwork, for its caller's position pc
handshake(e, pc) ==
    /\ e.switches <= 1
    /\ e.adds <= 1
    /\ e.switchResult # Nothing =>
           /\ e.switches = 1
           /\ IF e.switchResult.ok
              THEN e.phase = "returned" /\ e.adds = 0
              ELSE IF IsChainNotAdded(e.switchResult.error)
              THEN /\ e.adds = 1
                   /\ e.addResult = Nothing => e.phase = "add"
                   /\ (e.addResult # Nothing /\ e.addResult.ok) => e.phase = "returned"
              ELSE /\ e.adds = 0
                   /\ e.phase = "threw"
                   /\ e.thrown = e.switchResult.error
    /\ e.phase = "returned" => pc # "ensure"
    /\ e.phase \in {"switch", "add"} => pc = "ensure"

\* C8: ensureMonadNetwork follows the switch/add handshake for every outcome of
\* the switch request: after a successful switch it returns and issues nothing
\* more; after a switch failing with 4902 it issues exactly one add-chain
\* request and no second switch, and returns when the add-chain succeeds; after
\* a switch failing otherwise it issues no add-chain request and throws that
\* same error.
C8_Handshake == handshake(send.ensure, send.pc) /\ handshake(bulk.ensure, bulk.pc)

\* a bulk call whose switch failed with 4902 and whose add-chain succeeded is
\* submitting
C8_Witness ==
    /\ bulk.pc = "submit"
    /\ bulk.ensure.switchResult = Rejected(ErrUnrecognizedChain)
    /\ bulk.ensure.addResult = Resolved(NULL)
    /\ bulk.ensure.switches = 1
    /\ bulk.ensure.adds = 1

\* a step that hands a transfer submission to the wallet
issuesSubmission ==
    \/ send'.attempts = send.attempts + 1
    \/ Len(bulk'.attempts) = Len(bulk.attempts) + 1

\* C9: at the moment sendPayment or sendBulkPayment issues a transfer
\* submission, the wallet is on the target chain, the user being free to change
\* the wallet's chain at any await.
C9_SubmissionsOnTargetChain == [][issuesSubmission => walletChain' = chainIdHex]_vars

-----------------------------------------------------------------------------
(* ProviderResolver with sub-providers (SpecResolve) *)

flaggedProviders ==
    {i \in 1..Len(win.providers) : win.providers[i].present /\ win.providers[i].isMetaMask}

workingProviders ==
    {i \in 1..Len(win.providers) : win.providers[i].present /\ win.providers[i].hasRequest}

Least(S) == CHOOSE i \in S : \A j \in S : i <= j

\* C10, as claimed: with a non-empty providers array, getProvider returns the
\* first MetaMask-flagged sub-provider if there is one, and otherwise the first
\* sub-provider that exposes request, wherever it stands.
C10_FirstWorkingProvider ==
    (resolved # NotResolved /\ win.hasEthereum /\ Len(win.providers) > 0) =>
        IF flaggedProviders # {}
        THEN resolved = Returned(SubHandle(Least(flaggedProviders)))
        ELSE workingProviders # {} =>
                 resolved = Returned(SubHandle(Least(workingProviders)))

\* C10, amended: with a non-empty providers array, getProvider returns the
\* first MetaMask-flagged sub-provider if there is one, wherever it stands;
\* otherwise it returns the sub-provider at index 0 if that one exposes
\* request, and no sub-provider at all if it does not.
C10_FlaggedElseFirstEntry ==
    (resolved # NotResolved /\ win.hasEthereum /\ Len(win.providers) > 0) =>
        IF flaggedProviders # {}
        THEN resolved = Returned(SubHandle(Least(flaggedProviders)))
        ELSE IF 1 \in workingProviders
        THEN resolved = Returned(SubHandle(1))
        ELSE ~resolved.ok \/ resolved.handle = EthHandle

\* providers: [nonMetaMask, metaMask] resolved to the MetaMask-flagged entry
C10_Witness ==
    /\ Len(win.providers) = 2
    /\ win.providers[1].present
    /\ win.providers[1].hasRequest
    /\ ~win.providers[1].isMetaMask
    /\ win.providers[2].isMetaMask
    /\ resolved = Returned(SubHandle(2))

-----------------------------------------------------------------------------
(* ProviderResolver failures (SpecResolve) *)

\* window.ethereum has no sub-providers, is not MetaMask-flagged and exposes
\* request
bareRequestOnly ==
    /\ win.hasEthereum
    /\ win.providers = <<>>
    /\ ~win.isMetaMask
    /\ win.hasRequest

\* window.ethereum matches none of getProvider's rules
matchesNoRule ==
    /\ win.hasEthereum
    /\ flaggedProviders = {}
    /\ 1 \notin workingProviders
    /\ ~win.isMetaMask
    /\ ~win.hasRequest

\* C11: getProvider throws the Phantom-only message when there is no
\* window.ethereum and Phantom is present, the no-wallet message when there is
\* neither, the Phantom-default warning when a bare window.ethereum with
\* request stands beside Phantom, and the no-usable-provider message when
\* window.ethereum matches no rule; the four messages are pairwise different,
\* and the bare window.ethereum without Phantom is itself returned.
C11_DistinctFailures ==
    /\ Cardinality({MsgPhantomOnly, MsgNoWallet, MsgPhantomDefault, MsgNoUsable}) = 4
    /\ resolved # NotResolved =>
        /\ (~win.hasEthereum /\ win.hasSolana) => resolved = Thrown(Error(MsgPhantomOnly))
        /\ (~win.hasEthereum /\ ~win.hasSolana) => resolved = Thrown(Error(MsgNoWallet))
        /\ (bareRequestOnly /\ win.hasSolana) => resolved = Thrown(Error(MsgPhantomDefault))
        /\ (bareRequestOnly /\ ~win.hasSolana) => resolved = Returned(EthHandle)
        /\ matchesNoRule => resolved = Thrown(Error(MsgNoUsable))

\* getProvider threw the Phantom-default warning for a bare window.ethereum
C11_Witness ==
    /\ bareRequestOnly
    /\ win.hasSolana
    /\ resolved = Thrown(Error(MsgPhantomDefault))

-----------------------------------------------------------------------------
(* Failures of sendPayment and sendBulkPayment (Spec) *)

ValidationErrors ==
    {Error("Invalid Monad address"), Error("Amount must be greater than 0"),
     Error("No wallet connected"), Error("No recipients provided")}

\* result is { success: false, error } with the message of one of errors; an
\* error that is not an Error instance has lost its message
returnedAs(result, errors) ==
    /\ DOMAIN result = {"success", "error"}
    /\ result.success = FALSE
    /\ result.error # ""
    /\ \E e \in errors : e.isError => result.error = e.message

\* what a finished call raised before its first submission: the failure of
\* the network ensure, of the validation, or of the provider resolution
raisedBeforeSubmission(ensure, validated) ==
    IF ensure.phase = "threw" THEN {ensure.thrown}
    ELSE IF ~validated THEN ValidationErrors
    ELSE IF ~getProvider(win).ok THEN {getProvider(win).error}
    ELSE {}

\* each finished call has returned an outcome record, and a failure raised
\* before the first submission is returned as { success: false, error }
C12_Returned ==
    /\ send.pc = "done" =>
        /\ "success" \in DOMAIN send.result
        /\ send.attempts = 0 =>
            /\ raisedBeforeSubmission(send.ensure, send.validated) # {}
            /\ returnedAs(send.result, raisedBeforeSubmission(send.ensure, send.validated))
    /\ bulk.pc = "done" =>
        /\ "success" \in DOMAIN bulk.result
        /\ bulk.attempts = <<>> =>
            /\ raisedBeforeSubmission(bulk.ensure, bulk.prevalidated) # {}
            /\ returnedAs(bulk.result, raisedBeforeSubmission(bulk.ensure, bulk.prevalidated))

\* a rejected submission of sendPayment is returned as { success: false, error }
C12_SendSubmission ==
    \A o \in SubmitOutcomes(send.attempts) :
        (sendSubmitSettles(o) /\ ~o.ok) => returnedAs(send'.result, {o.error})

\* a rejected submission of sendBulkPayment is returned as { success: false, error }
C12_BulkSubmission ==
    (bulk.pc = "done" /\ attemptsWith("failed") # {}) =>
        (bulk.result.success = FALSE /\ "error" \in DOMAIN bulk.result)

\* C12, as claimed: sendPayment and sendBulkPayment never throw, and every
\* failure raised inside the call (network ensure, validation, provider
\* resolution, submission) is returned as { success: false, error: message }.
C12_EveryFailureReturned ==
    []C12_Returned /\ [][C12_SendSubmission]_vars /\ []C12_BulkSubmission

\* C12, amended: sendPayment and sendBulkPayment never throw; every failure
\* raised by the network ensure, the validation, the provider resolution or
\* sendPayment's submission is returned as { success: false, error: message };
\* a rejected submission of sendBulkPayment is counted, not returned as an error.
C12_FailuresReturnedOrCounted ==
    /\ []C12_Returned
    /\ [][C12_SendSubmission]_vars
    /\ [](bulk.pc = "done" /\ attemptsWith("failed") # {} =>
            /\ "error" \notin DOMAIN bulk.result
            /\ bulk.result.failedTransactions = Cardinality(attemptsWith("failed")))

\* sendPayment has returned the failure of its rejected submission
C12_Witness ==
    /\ send.pc = "done"
    /\ send.attempts = 1
    /\ send.result = [success |-> FALSE, error |-> "User rejected the request"]

-----------------------------------------------------------------------------
(* Outcomes of connectWallet and reconnectWallet (SpecSession) *)

\* C13: connectWallet raises nothing to its caller: every failure inside it
\* (no provider, rejected or empty account request, failed switch or
\* add-chain, failed balance query) is returned as an outcome record.
C13_ConnectReturnsFailures ==
    connect.pc = "done" => ~connect.result.threw


\* the account request of connectWallet settled and the call went on: the
\* session and the persisted key hold the first account returned
connectSetsSession ==
    \A o \in AccountsOutcomes :
        (connectAccountsSettle(o) /\ connect'.pc # "done") =>
            /\ o.ok /\ o.value # <<>>
            /\ connectedAccount' = Head(o.value)
            /\ storage' = Head(o.value)
            /\ connect'.account = Head(o.value)

reconnectSetsSession ==
    \A o \in AccountsOutcomes :
        (reconnectAccountsSettle(o) /\ reconnect'.pc # "done") =>
            /\ o.ok /\ o.value # <<>>
            /\ connectedAccount' = Head(o.value)
            /\ storage' = Head(o.value)
            /\ reconnect'.account = Head(o.value)

\* a call that returns an address returns the one it set
connectReturnsAccount ==
    \A o \in BalanceOutcomes :
        (connectBalanceSettles(o) /\ ~connect'.result.threw) =>
            connect'.result.address = connect.account

reconnectReturnsAccount ==
    \A o \in BalanceOutcomes :
        (reconnectBalanceSettles(o) /\ reconnect'.result.address # NULL) =>
            reconnect'.result.address = reconnect.account

\* C14: a successful connectWallet or reconnectWallet sets connectedAccount to
\* the first account the provider returned, stores that address in
\* localStorage, and returns that address.
C14_SuccessSetsSession ==
    /\ [][connectSetsSession /\ reconnectSetsSession]_vars
    /\ [][connectReturnsAccount /\ reconnectReturnsAccount]_vars
    /\ [](connect.pc \in {"switch", "add", "balance"} => connect.account \in Accounts)
    /\ [](reconnect.pc = "balance" => reconnect.account \in Accounts)

\* connectWallet, called while Disconnected, has returned the account it was
\* handed first, which the session holds and localStorage stores
C14_Witness ==
    /\ connect.pc = "done"
    /\ ~connect.result.threw
    /\ connect.before = Session(NULL, NULL)
    /\ connect.result.address = "0xA2"
    /\ connectedAccount = "0xA2"
    /\ storage = "0xA2"

-----------------------------------------------------------------------------
(* disconnectWallet (SpecDisconnect) *)

\* C15: in every state, whatever the session holds, whatever is injected and
\* whatever call is suspended at an await, disconnectWallet can run, and it
\* leaves connectedAccount null and the localStorage key removed.
C15_DisconnectAlwaysSucceeds ==
    ENABLED (disconnectWallet /\ connectedAccount' = NULL /\ storage' = NULL)

\* disconnectWallet has run while a connectWallet awaited its balance query
\* and a sendBulkPayment awaited a submission
C15_Witness ==
    /\ connect.pc = "balance"
    /\ bulk.pc = "submit"
    /\ connectedAccount = NULL
    /\ storage = NULL

-----------------------------------------------------------------------------
(* getTransactionDetails (SpecDetails) *)

\* the provider resolution or one of the two queries of the call failed
fetchFailed ==
    \/ ~getProvider(win).ok
    \/ details.tx # Nothing /\ ~details.tx.ok
    \/ details.receipt # Nothing /\ ~details.receipt.ok

\* both queries succeeded and the receipt's status is 0x1
receiptReportsSuccess ==
    /\ details.tx # Nothing /\ details.tx.ok
    /\ details.receipt # Nothing /\ details.receipt.ok
    /\ details.receipt.value # NoObject
    /\ "status" \in DOMAIN details.receipt.value
    /\ details.receipt.value.status = "0x1"

\* C16: getTransactionDetails always returns a summary, and the summary's
\* success is true exactly when a fetch failed (provider resolution,
\* transaction query or receipt query) or both queries succeeded and the
\* receipt's status is 0x1; a missing receipt or another status gives false.
C16_OptimisticSummary ==
    details.pc = "done" =>
        /\ DOMAIN details.result = {"hash", "success", "timestamp", "gasUsed", "gasPrice"}
        /\ details.result.success <=> (fetchFailed \/ receiptReportsSuccess)

\* the receipt query was rejected and the summary reports success
C16_Witness ==
    /\ details.pc = "done"
    /\ details.receipt = Rejected(ErrInternal)
    /\ details.result.success

-----------------------------------------------------------------------------
(* The network ensure before submissions (Spec) *)

\* the ensure of a call returned after a successful switch, or after a switch
\* that failed with 4902 and a successful add-chain
ensureCompleted(e) ==
    /\ e.phase = "returned"
    /\ e.switches = 1
    /\ e.switchResult # Nothing
    /\ \/ e.switchResult.ok
       \/ /\ IsChainNotAdded(e.switchResult.error)
          /\ e.addResult # Nothing
          /\ e.addResult.ok

-----------------------------------------------------------------------------
(* Recipient substitution (Spec) *)

\* the address a pending submission was requested for
requestedOf(call) ==
    IF call = "send" THEN send.recipient ELSE bulk.recipients[bulk.idx].address

\* every hex digit of the address before its last one is a zero
zerosBeforeLastDigit(address) ==
    \A i \in 3..(Len(address) - 1) : address[i] = "0"

\* no call has failed on a recipient address
neverFailsOnAddress ==
    /\ (send.pc = "done" /\ "error" \in DOMAIN send.result) =>
           send.result.error # "Invalid Monad address"
    /\ (bulk.pc = "done" /\ "error" \in DOMAIN bulk.result) =>
           bulk.result.error # "Invalid Monad address"

\* C18, as claimed: the `to` of each submitted transfer is the requested
\* address whenever that address is valid, leading zeros included, and is
\* TEST_ADDRESS exactly when the requested address is invalid; an invalid
\* address never fails the call.
C18_SubstitutesInvalidOnly ==
    /\ send.request # NoRequest =>
           send.request.to = IF isValidAddress(requestedOf("send"))
                             THEN requestedOf("send") ELSE TEST_ADDRESS
    /\ bulk.request # NoRequest =>
           bulk.request.to = IF isValidAddress(requestedOf("bulk"))
                             THEN requestedOf("bulk") ELSE TEST_ADDRESS
    /\ neverFailsOnAddress

\* what C18, amended, expects as the `to` of a submission
keptOrTestAddress(requested) ==
    IF isValidAddress(requested) /\ ~zerosBeforeLastDigit(requested)
    THEN requested ELSE TEST_ADDRESS

\* C18, amended: the `to` of each submitted transfer is the requested address
\* when that address is valid and is not a run of zeros before its last hex
\* digit, and is TEST_ADDRESS otherwise (an invalid address, or a valid one
\* made of leading zeros); an address never fails the call.
C18_SubstitutesInvalidAndPlaceholder ==
    /\ send.request # NoRequest => send.request.to = keptOrTestAddress(requestedOf("send"))
    /\ bulk.request # NoRequest => bulk.request.to = keptOrTestAddress(requestedOf("bulk"))
    /\ neverFailsOnAddress

\* a batch is submitting to TEST_ADDRESS for a valid address of leading zeros,
\* after a submission to the requested address
C18_Witness ==
    /\ bulk.pc = "submit"
    /\ bulk.idx = 2
    /\ bulk.recipients[1].address = AddrGood
    /\ bulk.recipients[2].address = AddrLeadingZeros
    /\ bulk.request.to = TEST_ADDRESS

-----------------------------------------------------------------------------
(* Aggregate figures of sendBulkPayment (Spec) *)

RECURSIVE sumNetAmount(_)
\* the sum of calculateNetAmount over the displayed amounts of a batch
sumNetAmount(recipients) ==
    IF recipients = <<>>
    THEN 0
    ELSE calculateNetAmount(Head(recipients).amount) + sumNetAmount(Tail(recipients))

\* C19: with includePlatformFee, the totalPlatformFee and totalNetAmount that
\* sendBulkPayment reports after its loop are the sums of calculatePlatformFee
\* and of calculateNetAmount over the displayed amounts of the batch, whatever
\* was sent on chain and whichever submissions failed; without it both are
\* absent from the outcome.
C19_TotalsFromDisplayedAmounts ==
    (bulk.pc = "done" /\ bulk.attempts # <<>>) =>
        IF bulk.includePlatformFee
        THEN /\ bulk.result.totalPlatformFee = sumPlatformFee(bulk.recipients)
             /\ bulk.result.totalNetAmount = sumNetAmount(bulk.recipients)
        ELSE /\ "totalPlatformFee" \notin DOMAIN bulk.result
             /\ "totalNetAmount" \notin DOMAIN bulk.result

-----------------------------------------------------------------------------
(* The persisted address (SpecSession) *)

\* C20: at every await and between calls, from the hydration on and after any
\* interleaving of connectWallet, reconnectWallet and disconnectWallet, the
\* localStorage key holds exactly connectedAccount, and is absent exactly when
\* connectedAccount is null.
C20_StorageMirrorsSession ==
    /\ storage = connectedAccount
    /\ storage = NULL <=> connectedAccount = NULL

\* a reconnectWallet has written its account over the one a connectWallet
\* wrote, both awaiting their balance query
C20_Witness ==
    /\ connect.pc = "balance"
    /\ reconnect.pc = "balance"
    /\ connect.account = "0xA1"
    /\ reconnect.account = "0xA2"
    /\ connectedAccount = "0xA2"
    /\ storage = "0xA2"

-----------------------------------------------------------------------------
(* The sender of submissions (Spec) *)

\* C21: every transfer submission of sendPayment and sendBulkPayment is issued
\* while the session is connected and carries that non-empty address as its
\* sender, also when disconnectWallet runs at an await of a batch in progress.
C21_SubmissionsHaveSender ==
    [][issuesSubmission =>
          /\ connectedAccount' # NULL
          /\ send'.attempts = send.attempts + 1 => send'.request.from \in Accounts
          /\ Len(bulk'.attempts) = Len(bulk.attempts) + 1 => bulk'.request.from \in Accounts]_vars

-----------------------------------------------------------------------------
(* Failure outcomes (Spec) *)

\* C22: every outcome of sendPayment and sendBulkPayment with success = false
\* carries a non-empty error string, also the outcome of a batch that passed
\* pre-validation and had every submission fail.
C22_FailuresCarryError ==
    /\ (send.pc = "done" /\ ~send.result.success) =>
           ("error" \in DOMAIN send.result /\ send.result.error # "")
    /\ (bulk.pc = "done" /\ ~bulk.result.success) =>
           ("error" \in DOMAIN bulk.result /\ bulk.result.error # "")

=============================================================================
